---- MODULE Spec2Model ----
(***************************************************************************)
(* Model of the product CRUD service of src/app.py: the Flask handlers     *)
(* create_producto, get_productos, get_producto, update_producto and       *)
(* delete_producto over one DynamoDB table keyed by "id".                  *)
(*                                                                         *)
(* A handler is atomic between two storage calls.  create, list and get    *)
(* make one storage call and are one action each; update and delete make   *)
(* two (get_item, then update_item / delete_item) and are two actions, so  *)
(* that other requests can run between the existence check and the write.  *)
(* Spec allows that interleaving, SeqSpec runs the requests one after      *)
(* another.  Every storage call may fail (it then raises, has no effect,   *)
(* and the handler's "except Exception" answers 500).  resp holds the      *)
(* response a handler has returned until Send has put it on the wire; the  *)
(* next handler step is taken after that.                                  *)
(*                                                                         *)
(* Python and JSON values are records [t, n, s]: t is the type ("str",    *)
(* "int", "float", "dec" for decimal.Decimal / a DynamoDB Number), n the   *)
(* numeric value and s the characters of a string.                         *)
(***************************************************************************)
EXTENDS Integers, Sequences, FiniteSets, Bags, TLC

\* ------------------------------------------------------------------ bounds
\* Number of identifiers uuid4 can hand out (and of ids a request can name).
MaxIds == 2
\* Number of update/delete requests that can be between their two storage calls.
MaxInFlight == 2
\* Largest reading of the clock behind datetime.utcnow().
MaxClock == 1
\* Width of the float significand.  Python's float has 53 bits; the model
\* keeps round-to-nearest-even and scales the width down so that the first
\* integer a float cannot hold, 2^FloatBits + 1, is small.
FloatBits == 4

IDs == 1..MaxIds

VARIABLES
    table,   \* the DynamoDB table: id -> stored item (a record of attributes)
    used,    \* the identifiers uuid4 has generated so far
    clock,   \* the current reading of the UTC clock
    pend,    \* the bag of updates/deletes between their two storage calls
    resp     \* the response of the request that completed last

vars == <<table, used, clock, pend, resp>>

\* ------------------------------------------------------------------ values
StrV(s) == [t |-> "str", n |-> 0, s |-> s]
IntV(n) == [t |-> "int", n |-> n, s |-> <<>>]
FloatV(n) == [t |-> "float", n |-> n, s |-> <<>>]
DecV(n) == [t |-> "dec", n |-> n, s |-> <<>>]
\* str(uuid.uuid4()): a string that is different for every identifier
IdVal(i) == [t |-> "str", n |-> i, s |-> <<"u">>]
\* datetime.utcnow().isoformat(): a string that encodes the clock reading
Timestamp(c) == [t |-> "str", n |-> c, s |-> <<"T">>]

AllAttrs == {"id", "nombre", "precio", "descripcion", "stock", "created_at", "updated_at"}

\* -------------------------------------------------------- Python built-ins
RECURSIVE LStrip(_)
LStrip(s) == IF s # <<>> /\ Head(s) = " " THEN LStrip(Tail(s)) ELSE s

RECURSIVE RStrip(_)
RStrip(s) ==
    IF s # <<>> /\ s[Len(s)] = " " THEN RStrip(SubSeq(s, 1, Len(s) - 1)) ELSE s

\* str.strip(): both ends lose their blanks
Strip(s) == RStrip(LStrip(s))

Digits == <<"0", "1", "2", "3", "4", "5", "6", "7", "8", "9">>
IsDigit(c) == \E d \in 1..10 : Digits[d] = c
DigitVal(c) == (CHOOSE d \in 1..10 : Digits[d] = c) - 1

RECURSIVE DigitsVal(_)
DigitsVal(s) ==
    IF s = <<>> THEN 0 ELSE 10 * DigitsVal(SubSeq(s, 1, Len(s) - 1)) + DigitVal(s[Len(s)])

\* The text of a decimal integer, as int(str) and float(str) accept it:
\* blanks around it, an optional sign, then one or more digits.
ParseNumber(s) ==
    LET b == Strip(s)
        neg == b # <<>> /\ Head(b) = "-"
        d == IF neg THEN Tail(b) ELSE b
    IN  IF d # <<>> /\ \A k \in 1..Len(d) : IsDigit(d[k])
        THEN [ok |-> TRUE, n |-> IF neg THEN 0 - DigitsVal(d) ELSE DigitsVal(d)]
        ELSE [ok |-> FALSE, n |-> 0]

RECURSIVE Pow2(_)
Pow2(k) == IF k = 0 THEN 1 ELSE 2 * Pow2(k - 1)

\* The spacing of the floats around the magnitude m: 1 while m fits the
\* significand, doubling with every further bit.
RECURSIVE Ulp(_)
Ulp(m) == IF m < Pow2(FloatBits) THEN 1 ELSE 2 * Ulp(m \div 2)

\* The float nearest to the integer n, ties to the even significand.
RoundToFloat(n) ==
    LET m == IF n < 0 THEN 0 - n ELSE n
        u == Ulp(m)
        q == m \div u
        r == m % u
        up == 2 * r > u \/ (2 * r = u /\ q % 2 = 1)
        f == IF up THEN (q + 1) * u ELSE q * u
    IN  IF n < 0 THEN 0 - f ELSE f

\* float(x): of an int, of a float, of the text of a number; ValueError otherwise.
PyFloat(v) ==
    CASE v.t = "int" -> [ok |-> TRUE, n |-> RoundToFloat(v.n)]
      [] v.t = "float" -> [ok |-> TRUE, n |-> v.n]
      [] v.t = "dec" -> [ok |-> TRUE, n |-> RoundToFloat(v.n)]
      [] v.t = "str" ->
            LET p == ParseNumber(v.s)
            IN  [ok |-> p.ok, n |-> IF p.ok THEN RoundToFloat(p.n) ELSE 0]

\* int(x): of an int, of the text of an integer; ValueError otherwise.
PyInt(v) ==
    CASE v.t = "int" -> [ok |-> TRUE, n |-> v.n]
      [] v.t = "float" -> [ok |-> TRUE, n |-> v.n]
      [] v.t = "dec" -> [ok |-> TRUE, n |-> v.n]
      [] v.t = "str" -> ParseNumber(v.s)

RECURSIVE DigitsOf(_)
DigitsOf(m) ==
    IF m < 10 THEN <<Digits[m + 1]>> ELSE Append(DigitsOf(m \div 10), Digits[(m % 10) + 1])

\* str(f) of a float with an integral value (below 1e16, where repr spells
\* every digit): its digits, then ".0"
FloatStr(n) ==
    (IF n < 0 THEN <<"-">> ELSE <<>>) \o DigitsOf(IF n < 0 THEN 0 - n ELSE n) \o <<".", "0">>

\* Decimal(text): the exact value of the text "<digits>.0"
DecimalOfStr(s) ==
    LET neg == Head(s) = "-"
        d == IF neg THEN Tail(s) ELSE s
        whole == SubSeq(d, 1, Len(d) - 2)
    IN  DecV(IF neg THEN 0 - DigitsVal(whole) ELSE DigitsVal(whole))

\* Decimal(str(precio))
ToDecimal(f) == DecimalOfStr(FloatStr(f))

\* convert_decimals on one value: a Decimal becomes a float, the rest passes
ConvertValue(v) == IF v.t = "dec" THEN FloatV(RoundToFloat(v.n)) ELSE v

\* convert_decimals on a dict
convert_decimals(item) == [a \in DOMAIN item |-> ConvertValue(item[a])]

\* boto3 writes a Python int as a DynamoDB Number, which reads back as Decimal
ToStorageValue(v) == IF v.t = "int" THEN DecV(v.n) ELSE v
ToStorage(item) == [a \in DOMAIN item |-> ToStorageValue(item[a])]


\* ------------------------------------------------------------------ inputs
\* request.get_json(): a JSON object (its keys and values) or JSON null
Body(obj) == [isNull |-> FALSE, obj |-> obj]
NullBody == [isNull |-> TRUE, obj |-> [k \in {} |-> IntV(0)]]

\* The drift input: the first integer that no float holds.
BigPrecio == Pow2(FloatBits) + 1

\* The request bodies the model sends, one per case of the handlers.
P_Null == NullBody
P_Empty == Body([k \in {} |-> IntV(0)])
P_Unknown == Body([otro |-> IntV(1)])
P_Minimal == Body([nombre |-> StrV(<<" ", "a">>), precio |-> IntV(7)])
P_Full == Body([nombre |-> StrV(<<"b">>), precio |-> IntV(BigPrecio),
                descripcion |-> StrV(<<"d", " ">>), stock |-> IntV(7), otro |-> IntV(1)])
P_Texts == Body([nombre |-> StrV(<<"a", " ">>), precio |-> StrV(<<" ", "7">>),
                 stock |-> StrV(<<"7">>)])
P_NoPrecio == Body([nombre |-> StrV(<<" ", "a">>)])
P_NoNombre == Body([precio |-> IntV(7)])
P_PrecioText == Body([nombre |-> StrV(<<"b">>), precio |-> StrV(<<"a", "b", "c">>)])
P_PrecioNegative == Body([nombre |-> StrV(<<"b">>), precio |-> IntV(0 - 5)])
P_StockText == Body([nombre |-> StrV(<<" ", "a">>), precio |-> IntV(7), stock |-> StrV(<<"x">>)])
P_NombreNumber == Body([nombre |-> IntV(5), precio |-> IntV(7)])
P_DescripcionNumber == Body([nombre |-> StrV(<<" ", "a">>), precio |-> IntV(7),
                             descripcion |-> IntV(5)])
P_StockOnly == Body([stock |-> IntV(7)])
P_Rewrite == Body([nombre |-> StrV(<<"b", " ">>), precio |-> IntV(BigPrecio),
                   descripcion |-> StrV(<<" ", "d">>)])
P_StockTextOnly == Body([stock |-> StrV(<<"x">>)])
P_NombreNumberOnly == Body([nombre |-> IntV(5)])
P_DescripcionNumberOnly == Body([descripcion |-> IntV(5)])

\* The bodies sent to POST /productos
CreatePayloads ==
    {P_Null, P_Empty, P_Minimal, P_Full, P_Texts, P_NoPrecio, P_NoNombre,
     P_PrecioText, P_PrecioNegative, P_StockText, P_NombreNumber, P_DescripcionNumber}

\* The bodies sent to PUT /productos/<id>
UpdatePayloads ==
    {P_Null, P_Empty, P_Unknown, P_StockOnly, P_Rewrite,
     P_PrecioText, P_PrecioNegative, P_StockTextOnly, P_NombreNumberOnly,
     P_DescripcionNumberOnly}

\* "not data": None and the empty dict are falsy
Falsy(data) == data.isNull \/ DOMAIN data.obj = {}
Has(data, k) == k \in DOMAIN data.obj

\* ---------------------------------------------------------------- responses
NoItem == [a \in {} |-> IntV(0)]

Response(op, id, status, producto, count, productos) ==
    [op |-> op, id |-> id, status |-> status, producto |-> producto,
     count |-> count, productos |-> productos]

\* jsonify({'error': ...}), status
ErrorResponse(op, id, status) == Response(op, id, status, NoItem, 0, <<>>)

\* No response is on its way out.
NoResponse == ErrorResponse("none", 0, 0)

\* An update_producto / delete_producto between its two storage calls: the
\* handler, its id, its body and the values it has built for update_item.
Pending(op, i, data, values) == [op |-> op, id |-> i, data |-> data, values |-> values]

\* A further request can be between its two storage calls.
CanStart == BagCardinality(pend) < MaxInFlight

Init ==
    /\ table = [i \in {} |-> NoItem]
    /\ used = {}
    /\ clock = 0
    /\ pend = EmptyBag
    /\ resp = NoResponse

\* ------------------------------------------------------------ create_producto
\* Lines 101-110: the required keys, then precio as a non-negative number.
\* 0 when the payload passes, else the status the handler returns.
\* (a variant without the sign check of line 107)
CreateValidateNoSign(data) ==
    IF Falsy(data) \/ ~Has(data, "nombre") \/ ~Has(data, "precio") THEN 400
    ELSE IF ~PyFloat(data.obj.precio).ok THEN 400
    ELSE 0

CreateValidate(data) ==
    IF Falsy(data) \/ ~Has(data, "nombre") \/ ~Has(data, "precio") THEN 400
    ELSE IF ~PyFloat(data.obj.precio).ok THEN 400
    ELSE IF PyFloat(data.obj.precio).n < 0 THEN 400
    ELSE 0

\* Lines 115-123: the item built from a payload that passed CreateValidate.
\* strip() of a value that is no string and int() of a text that is no
\* integer raise, which the handler's "except Exception" turns into 500.
CreateItem(data, i, now) ==
    LET nombre == data.obj.nombre
        desc == IF Has(data, "descripcion") THEN data.obj.descripcion ELSE StrV(<<>>)
        stock == IF Has(data, "stock") THEN PyInt(data.obj.stock) ELSE [ok |-> TRUE, n |-> 0]
    IN  IF nombre.t # "str" \/ desc.t # "str" \/ ~stock.ok
        THEN [status |-> 500, item |-> NoItem]
        ELSE [status |-> 0,
              item |-> [id |-> IdVal(i),
                        nombre |-> StrV(Strip(nombre.s)),
                        precio |-> ToDecimal(PyFloat(data.obj.precio).n),
                        descripcion |-> StrV(Strip(desc.s)),
                        stock |-> IntV(stock.n),
                        created_at |-> Timestamp(now),
                        updated_at |-> Timestamp(now)]]

\* table.put_item(Item=item)
PutItem(t, i, item) == [j \in DOMAIN t \cup {i} |-> IF j = i THEN ToStorage(item) ELSE t[j]]

\* Line 112: uuid4 yields an identifier it has not yielded before.  The model
\* numbers the identifiers in the order uuid4 yields them (MaxIds + 1: none left).
FreshId == IF IDs \subseteq used THEN MaxIds + 1
           ELSE CHOOSE i \in IDs \ used : \A j \in IDs \ used : i <= j

\* POST /productos
CreateProducto(data, i, storageOk) ==
    /\ UNCHANGED <<clock, pend>>
    /\ IF CreateValidate(data) # 0
       THEN /\ resp' = ErrorResponse("create", 0, CreateValidate(data))
            /\ UNCHANGED <<table, used>>
       ELSE /\ i = FreshId
            /\ used' = used \cup {i}
            /\ LET built == CreateItem(data, i, clock)
               IN  IF built.status # 0
                   THEN /\ resp' = ErrorResponse("create", 0, built.status)
                        /\ UNCHANGED table
                   ELSE IF ~storageOk
                   THEN /\ resp' = ErrorResponse("create", 0, 500)
                        /\ UNCHANGED table
                   ELSE /\ table' = PutItem(table, i, built.item)
                        /\ resp' = Response("create", i, 201, convert_decimals(built.item), 0, <<>>)

\* -------------------------------------------------------------- get_productos
\* The items of t with an id of at least lo, in the order of their ids.
RECURSIVE ItemsFrom(_, _)
ItemsFrom(t, lo) ==
    IF lo > MaxIds THEN <<>>
    ELSE (IF lo \in DOMAIN t THEN <<t[lo]>> ELSE <<>>) \o ItemsFrom(t, lo + 1)

\* table.scan()['Items']: the items of the table, as a list.  DynamoDB fixes
\* no order; the model lists them by id.
\* (ScanFirstOnly: a variant that returns one item at most)
ScanFirstOnly(t) == IF t = <<>> THEN <<>> ELSE <<Head(ItemsFrom(t, 1))>>
Scan(t) == ItemsFrom(t, 1)

\* GET /productos
GetProductos(storageOk) ==
    /\ UNCHANGED <<table, used, clock, pend>>
    /\ IF ~storageOk
       THEN resp' = ErrorResponse("list", 0, 500)
       ELSE LET items == Scan(table)
                productos == [k \in 1..Len(items) |-> convert_decimals(items[k])]
            IN  resp' = Response("list", 0, 200, NoItem, Len(productos), productos)

\* --------------------------------------------------------------- get_producto
\* table.get_item(Key): 'Item' in response
HasItem(t, i) == i \in DOMAIN t

\* GET /productos/<id>
GetProducto(i, storageOk) ==
    /\ UNCHANGED <<table, used, clock, pend>>
    /\ IF ~storageOk
       THEN resp' = ErrorResponse("get", i, 500)
       ELSE IF ~HasItem(table, i)
       THEN resp' = ErrorResponse("get", i, 404)
       ELSE resp' = Response("get", i, 200, convert_decimals(table[i]), 0, {})

\* ------------------------------------------------------------ update_producto
\* Lines 200-223: the SET clauses and their values, field by field and in the
\* code's order; the first field that fails decides the status.  (updated_at,
\* which the code reads off the clock first, is added by WithUpdatedAt.)
\* (a variant that drops a precio it cannot accept and carries on)
UpdateValuesLenient(data) ==
    LET o == data.obj
        Set(v, k, x) == [a \in DOMAIN v \cup {k} |-> IF a = k THEN x ELSE v[a]]
        v1 == IF Has(data, "nombre") /\ o.nombre.t = "str"
              THEN Set(NoItem, "nombre", StrV(Strip(o.nombre.s))) ELSE NoItem
        v2 == IF Has(data, "precio") /\ PyFloat(o.precio).ok /\ PyFloat(o.precio).n >= 0
              THEN Set(v1, "precio", ToDecimal(PyFloat(o.precio).n)) ELSE v1
    IN  [status |-> 0, values |-> v2]

UpdateValues(data) ==
    LET o == data.obj
        v0 == [status |-> 0, values |-> NoItem]
        Set(v, k, x) == [status |-> 0,
                         values |-> [a \in DOMAIN v.values \cup {k} |->
                                        IF a = k THEN x ELSE v.values[a]]]
        Fail(v, st) == [status |-> st, values |-> v.values]
        v1 == IF ~Has(data, "nombre") THEN v0
              ELSE IF o.nombre.t # "str" THEN Fail(v0, 500)
              ELSE Set(v0, "nombre", StrV(Strip(o.nombre.s)))
        v2 == IF v1.status # 0 \/ ~Has(data, "precio") THEN v1
              ELSE IF ~PyFloat(o.precio).ok THEN Fail(v1, 400)
              ELSE IF PyFloat(o.precio).n < 0 THEN Fail(v1, 400)
              ELSE Set(v1, "precio", ToDecimal(PyFloat(o.precio).n))
        v3 == IF v2.status # 0 \/ ~Has(data, "descripcion") THEN v2
              ELSE IF o.descripcion.t # "str" THEN Fail(v2, 500)
              ELSE Set(v2, "descripcion", StrV(Strip(o.descripcion.s)))
        v4 == IF v3.status # 0 \/ ~Has(data, "stock") THEN v3
              ELSE IF ~PyInt(o.stock).ok THEN Fail(v3, 500)
              ELSE Set(v3, "stock", IntV(PyInt(o.stock).n))
    IN  v4

\* Line 201: ':updated_at' is datetime.utcnow().isoformat().  The clock is
\* read between the two storage calls; the model reads it with the second.
WithUpdatedAt(values, now) ==
    [a \in DOMAIN values \cup {"updated_at"} |->
        IF a = "updated_at" THEN Timestamp(now) ELSE values[a]]

\* table.update_item(Key, "SET ...", values): sets the named attributes of the
\* item with that key and, as DynamoDB does, creates the item when there is none.
\* (a variant that replaces the whole item by the key and the named attributes)
UpdateItemReplaces(t, i, values) ==
    [j \in DOMAIN t \cup {i} |->
        IF j = i
        THEN [a \in {"id"} \cup DOMAIN values |->
                 IF a = "id" THEN IdVal(i) ELSE ToStorageValue(values[a])]
        ELSE t[j]]

UpdateItem(t, i, values) ==
    LET old == IF i \in DOMAIN t THEN t[i] ELSE [id |-> IdVal(i)]
        new == [a \in DOMAIN old \cup DOMAIN values |->
                    IF a \in DOMAIN values THEN ToStorageValue(values[a]) ELSE old[a]]
    IN  [j \in DOMAIN t \cup {i} |-> IF j = i THEN new ELSE t[j]]

\* Lines 195-196: the existence check of update_producto
\* (UpdateAlwaysExists: a variant without the check)
UpdateAlwaysExists(t, i) == TRUE
UpdateExists(t, i) == HasItem(t, i)

\* PUT /productos/<id>, lines 189-223: the body check, the existence check
\* (get_item) and the construction of the update expression.
UpdateBegin(i, data, storageOk) ==
    /\ CanStart
    /\ UNCHANGED <<table, used, clock>>
    /\ IF Falsy(data)
       THEN resp' = ErrorResponse("update", i, 400) /\ UNCHANGED pend
       ELSE IF ~storageOk
       THEN resp' = ErrorResponse("update", i, 500) /\ UNCHANGED pend
       ELSE IF ~UpdateExists(table, i)
       THEN resp' = ErrorResponse("update", i, 404) /\ UNCHANGED pend
       ELSE LET v == UpdateValues(data)
            IN  IF v.status # 0
                THEN resp' = ErrorResponse("update", i, v.status) /\ UNCHANGED pend
                ELSE /\ pend' = pend (+) SetToBag({Pending("update", i, data, v.values)})
                     /\ UNCHANGED resp

\* PUT /productos/<id>, lines 225-238: update_item and the response.
UpdateFinish(p, storageOk) ==
    /\ BagIn(p, pend)
    /\ p.op = "update"
    /\ pend' = pend (-) SetToBag({p})
    /\ UNCHANGED <<used, clock>>
    /\ IF ~storageOk
       THEN resp' = ErrorResponse("update", p.id, 500) /\ UNCHANGED table
       ELSE /\ table' = UpdateItem(table, p.id, WithUpdatedAt(p.values, clock))
            /\ resp' = Response("update", p.id, 200, convert_decimals(table'[p.id]), 0, <<>>)

\* ------------------------------------------------------------ delete_producto
\* table.delete_item(Key): removes the item; no error when there is none
\* (DeleteItemKeeps: a variant that removes nothing)
DeleteItemKeeps(t, i) == t
DeleteItem(t, i) == [j \in DOMAIN t \ {i} |-> t[j]]

\* DELETE /productos/<id>, lines 249-252: the existence check (get_item).
DeleteBegin(i, storageOk) ==
    /\ CanStart
    /\ UNCHANGED <<table, used, clock>>
    /\ IF ~storageOk
       THEN resp' = ErrorResponse("delete", i, 500) /\ UNCHANGED pend
       ELSE IF ~HasItem(table, i)
       THEN resp' = ErrorResponse("delete", i, 404) /\ UNCHANGED pend
       ELSE /\ pend' = pend (+) SetToBag({Pending("delete", i, NullBody, NoItem)})
            /\ UNCHANGED resp

\* DELETE /productos/<id>, lines 254-259: delete_item and the response.
DeleteFinish(p, storageOk) ==
    /\ BagIn(p, pend)
    /\ p.op = "delete"
    /\ pend' = pend (-) SetToBag({p})
    /\ UNCHANGED <<used, clock>>
    /\ IF ~storageOk
       THEN resp' = ErrorResponse("delete", p.id, 500) /\ UNCHANGED table
       ELSE /\ table' = DeleteItem(table, p.id)
            /\ resp' = ErrorResponse("delete", p.id, 200)

\* ---------------------------------------------------------------------- time
\* The clock behind datetime.utcnow() advances.
Tick ==
    /\ clock < MaxClock
    /\ clock' = clock + 1
    /\ UNCHANGED <<table, used, pend, resp>>

\* ------------------------------------------------------------ specifications
\* The response of the last request has left the server.
Sent == resp.op = "none"

\* The response goes out to the client.
Send ==
    /\ ~Sent
    /\ resp' = NoResponse
    /\ UNCHANGED <<table, used, clock, pend>>

Create == Sent /\ \E data \in CreatePayloads, i \in IDs, ok \in BOOLEAN : CreateProducto(data, i, ok)
List == Sent /\ \E ok \in BOOLEAN : GetProductos(ok)
Get == Sent /\ \E i \in IDs, ok \in BOOLEAN : GetProducto(i, ok)
BeginUpdate == Sent /\ \E i \in IDs, data \in UpdatePayloads, ok \in BOOLEAN : UpdateBegin(i, data, ok)
FinishUpdate == Sent /\ \E p \in BagToSet(pend), ok \in BOOLEAN : UpdateFinish(p, ok)
BeginDelete == Sent /\ \E i \in IDs, ok \in BOOLEAN : DeleteBegin(i, ok)
FinishDelete == Sent /\ \E p \in BagToSet(pend), ok \in BOOLEAN : DeleteFinish(p, ok)

\* No request is between its two storage calls.
Quiet == pend = EmptyBag

\* Requests handled concurrently: any handler may take its next step.
Next ==
    \/ Create
    \/ List
    \/ Get
    \/ BeginUpdate
    \/ FinishUpdate
    \/ BeginDelete
    \/ FinishDelete
    \/ Send
    \/ Tick

Spec == Init /\ [][Next]_vars

\* Requests run one after another: a request starts when none is under way.
SeqNext ==
    \/ Quiet /\ Create
    \/ Quiet /\ List
    \/ Quiet /\ Get
    \/ Quiet /\ BeginUpdate
    \/ FinishUpdate
    \/ Quiet /\ BeginDelete
    \/ FinishDelete
    \/ Send
    \/ Tick

SeqSpec == Init /\ [][SeqNext]_vars

\* ---------------------------------------------------------------- properties
Recognized == {"nombre", "precio", "descripcion", "stock"}
ErrorStatuses == {400, 404, 500}

\* The number a payload gives as precio: the integer itself, or the one its text spells.
InputNumber(v) == IF v.t = "str" THEN ParseNumber(v.s).n ELSE v.n

\* C1, as the claim states it: a PUT for an id with no stored record is
\* answered 404 whatever the payload, the empty one included, and writes nothing.
C1_AlwaysNotFound ==
    [][\A i \in IDs, d \in UpdatePayloads :
          (i \notin DOMAIN table /\ UpdateBegin(i, d, TRUE))
              => (resp'.status = 404 /\ table' = table)]_vars

\* C1, amended: a PUT for an id with no stored record writes nothing and starts
\* no update; it is answered 400 when the body is null or the empty object and
\* 404 for every other payload (get_item succeeding).
C1_NotFoundUnlessEmpty ==
    [][\A i \in IDs, d \in UpdatePayloads :
          (i \notin DOMAIN table /\ UpdateBegin(i, d, TRUE))
              => /\ table' = table
                 /\ pend' = pend
                 /\ resp'.op = "update"
                 /\ resp'.status = IF Falsy(d) THEN 400 ELSE 404]_vars

C1_Witness ==
    /\ resp.op = "update"
    /\ resp.status = 404
    /\ resp.id \notin DOMAIN table

\* C2: with requests run one after another, a DELETE of a stored record is
\* answered 200 and removes it; while the id has no record every GET and every
\* DELETE of it is answered 404, and only a create makes a record for it again.
C2_DeleteThenNotFound ==
    [][/\ \A p \in BagToSet(pend) :
            DeleteFinish(p, TRUE)
                => /\ p.id \in DOMAIN table
                   /\ resp'.status = 200
                   /\ p.id \notin DOMAIN table'
       /\ \A i \in IDs :
            /\ (i \in DOMAIN table /\ DeleteBegin(i, TRUE))
                  => \E p \in BagToSet(pend') : p.op = "delete" /\ p.id = i
            /\ (i \notin DOMAIN table /\ GetProducto(i, TRUE))
                  => resp'.op = "get" /\ resp'.status = 404
            /\ (i \notin DOMAIN table /\ DeleteBegin(i, TRUE))
                  => resp'.op = "delete" /\ resp'.status = 404 /\ pend' = pend
            /\ (i \notin DOMAIN table /\ i \in DOMAIN table')
                  => resp'.op = "create" /\ resp'.status = 201 /\ resp'.id = i]_vars

C2_Witness ==
    /\ resp.op = "delete"
    /\ resp.status = 200
    /\ resp.id \in used
    /\ resp.id \notin DOMAIN table

\* C3: a successful PUT on a stored record leaves alone id, created_at and
\* every recognized field the payload does not hold, and every other record;
\* it sets updated_at to the time of the update.  A payload with stock alone
\* can change stock and updated_at only, one without recognized key
\* updated_at only.
C3_UpdateFrame ==
    [][\A p \in BagToSet(pend) :
          (UpdateFinish(p, TRUE) /\ p.id \in DOMAIN table)
              => LET i == p.id
                     given == Recognized \cap DOMAIN p.data.obj
                 IN  /\ resp'.status = 200
                     /\ DOMAIN table' = DOMAIN table
                     /\ \A j \in DOMAIN table \ {i} : table'[j] = table[j]
                     /\ DOMAIN table'[i] = DOMAIN table[i] \cup given \cup {"updated_at"}
                     /\ \A a \in DOMAIN table[i] \ (given \cup {"updated_at"}) :
                            table'[i][a] = table[i][a]
                     /\ table'[i].updated_at = Timestamp(clock)
                     /\ resp'.producto = convert_decimals(table'[i])]_vars

C3_Witness ==
    /\ resp.op = "update"
    /\ resp.status = 200
    /\ resp.id \in DOMAIN table
    /\ DOMAIN table[resp.id] = AllAttrs
    /\ table[resp.id].nombre = StrV(<<"a">>)
    /\ table[resp.id].stock = DecV(7)
    /\ table[resp.id].updated_at # table[resp.id].created_at

\* C4: a POST whose payload lacks nombre, lacks precio, has a precio that is
\* no number or a negative precio is answered 400 and leaves the table as it was.
C4_Cases == {P_Null, P_Empty, P_NoNombre, P_NoPrecio, P_PrecioText, P_PrecioNegative}

C4_BadCreateRejected ==
    [][resp'.op = "create"
          => \A d \in C4_Cases, ok \in BOOLEAN :
                CreateProducto(d, FreshId, ok) => (resp'.status = 400 /\ table' = table)]_vars

C4_Witness ==
    /\ resp.op = "create"
    /\ resp.status = 400
    /\ table # <<>>

C6_FieldErrorsAre400 ==
    [][/\ \A d \in {P_StockText, P_NombreNumber, P_DescripcionNumber, P_PrecioText,
                    P_PrecioNegative}, i \in IDs :
            CreateProducto(d, i, TRUE) => resp'.status = 400
       /\ \A d \in {P_StockTextOnly, P_NombreNumberOnly, P_DescripcionNumberOnly,
                    P_PrecioText, P_PrecioNegative}, i \in DOMAIN table :
            UpdateBegin(i, d, TRUE) => resp'.status = 400]_vars

\* C7, as the claim states it: the precio a successful create writes, and the
\* one its 201 response carries, are the number the payload gave.
C7_PrecioExact ==
    [][\A d \in CreatePayloads, i \in IDs :
          (CreateProducto(d, i, TRUE) /\ resp'.status = 201)
              => /\ table'[i].precio.n = InputNumber(d.obj.precio)
                 /\ resp'.producto.precio.n = InputNumber(d.obj.precio)]_vars

\* C8, as the claim states it: whatever the interleaving, a PUT never makes a
\* record where there was none, so every stored record has the seven
\* attributes a create writes.
C8_RecordsComplete == \A i \in DOMAIN table : DOMAIN table[i] = AllAttrs

\* C9, as the claim states it: whatever the interleaving, a DELETE is
\* answered 200 only when its delete_item removed a record that was there.
C9_DeleteOkRemoved ==
    [][\A p \in BagToSet(pend) :
          (DeleteFinish(p, TRUE) /\ resp'.status = 200) => p.id \in DOMAIN table]_vars

\* C10: a request ends with one outcome, given when its handler ends; a
\* create, update or delete answered 400, 404 or 500 has changed no record
\* (neither has a handler that has not answered yet); an update with a good
\* nombre and a bad precio is refused before anything is written.
C10_ErrorsWriteNothing ==
    [][/\ (resp' # NoResponse /\ resp'.status \in ErrorStatuses) => table' = table
       /\ resp' = NoResponse => table' = table
       /\ resp' # NoResponse => resp'.status \in {200, 201} \cup ErrorStatuses
       /\ BagCardinality(pend') < BagCardinality(pend) => resp' # NoResponse
       /\ BagCardinality(pend') > BagCardinality(pend) => resp' = NoResponse
       /\ \A i \in IDs, ok \in BOOLEAN :
            UpdateBegin(i, P_PrecioText, ok)
                => /\ resp'.op = "update"
                   /\ resp'.status \in ErrorStatuses
                   /\ pend' = pend
                   /\ table' = table]_vars

C10_Witness ==
    /\ resp.op = "update"
    /\ resp.status = 400
    /\ resp.id \in DOMAIN table

====
